---- MODULE Spec2Model ----
(***************************************************************************)
(* Model of the GPU ray-tracing viewer's scene record (world_data.rs), its *)
(* vector kernel (math.rs), its material record (material.rs), the GPU     *)
(* state it is uploaded to (state.rs) and the event handlers that drive it *)
(* (main.rs).                                                              *)
(*                                                                         *)
(* Two specifications are given.  Spec explores the public operations of   *)
(* WorldData (add_sphere, next_frame, update_size) in every interleaving.  *)
(* AppSpec is the program itself: main, resumed and window_event.          *)
(***************************************************************************)
EXTENDS Integers, Sequences, FiniteSets, TLC

(***************************************************************************)
(* f32 values.  A value is a pair <<n, d>> with d >= 0: a reduced fraction *)
(* n/d when d > 0, +infinity = <<1, 0>>, -infinity = <<-1, 0>> and         *)
(* NaN = <<0, 0>>.  Rounding is not modelled (every finite result is kept  *)
(* exact) and -0.0 is identified with 0.0; the IEEE special values that    *)
(* division by zero produces are.  Two values are equal when their bits    *)
(* are: WorldData is a plain-old-data record compared as bytes, so a NaN   *)
(* equals the NaN the same computation produces.                           *)
(***************************************************************************)
Sign(n) == IF n > 0 THEN 1 ELSE IF n < 0 THEN -1 ELSE 0

Abs(n) == IF n < 0 THEN -n ELSE n

RECURSIVE GCD(_, _)
GCD(a, b) == IF b = 0 THEN a ELSE GCD(b, a % b)

\* The f32 with numerator n and denominator d >= 0, reduced.
Rat(n, d) ==
    IF d = 0 THEN <<Sign(n), 0>>
    ELSE LET g == GCD(Abs(n), d) IN <<n \div g, d \div g>>

NaN == <<0, 0>>

IsNaN(x) == x = NaN

IsFinite(x) == x[2] > 0

F(i) == <<i, 1>>

fneg(x) == <<-x[1], x[2]>>

fadd(x, y) ==
    IF IsFinite(x) /\ IsFinite(y) THEN Rat(x[1] * y[2] + y[1] * x[2], x[2] * y[2])
    ELSE IF IsNaN(x) \/ IsNaN(y) THEN NaN
    ELSE IF IsFinite(y) THEN x
    ELSE IF IsFinite(x) THEN y
    ELSE IF x = y THEN x ELSE NaN

fsub(x, y) == fadd(x, fneg(y))

fmul(x, y) == Rat(x[1] * y[1], x[2] * y[2])

frecip(x) == IF x[1] < 0 THEN <<-x[2], -x[1]>> ELSE <<x[2], x[1]>>

fdiv(x, y) == fmul(x, frecip(y))

Isqrt(n) == CHOOSE k \in 0..n : k * k <= n /\ (k + 1) * (k + 1) > n

\* f32::sqrt; exact on the squares of fractions, which is what the camera
\* inputs below produce.
fsqrt(x) ==
    IF x[1] < 0 THEN NaN
    ELSE IF ~IsFinite(x) THEN x
    ELSE Rat(Isqrt(x[1]), Isqrt(x[2]))

\* Angles are kept in units of PI, so that PI itself is the unit.
PI == <<1, 1>>

\* f32::tan on the angles the camera inputs below produce: tan(PI/4) = 1
\* and tan(PI/6) = 0.577 to three decimals.
ftan(x) ==
    IF ~IsFinite(x) THEN NaN
    ELSE IF x = <<1, 4>> THEN <<1, 1>>
    ELSE IF x = <<1, 6>> THEN <<577, 1000>>
    ELSE IF x = <<0, 1>> THEN <<0, 1>>
    ELSE NaN

(***************************************************************************)
(* math.rs                                                                 *)
(***************************************************************************)
add(v, w) == <<fadd(v[1], w[1]), fadd(v[2], w[2]), fadd(v[3], w[3]), fadd(v[4], w[4])>>

sub(v, w) == <<fsub(v[1], w[1]), fsub(v[2], w[2]), fsub(v[3], w[3]), fsub(v[4], w[4])>>

scale(scalar, v) ==
    <<fmul(scalar, v[1]), fmul(scalar, v[2]), fmul(scalar, v[3]), fmul(scalar, v[4])>>

dot(v, w) ==
    fadd(fadd(fadd(fmul(v[1], w[1]), fmul(v[2], w[2])), fmul(v[3], w[3])), fmul(v[4], w[4]))

norm(v) == fsqrt(dot(v, v))

normalize(v) == scale(fdiv(F(1), norm(v)), v)

cross(v, w) ==
    << fsub(fmul(v[2], w[3]), fmul(v[3], w[2])),
       fsub(fmul(v[3], w[1]), fmul(v[1], w[3])),
       fsub(fmul(v[1], w[2]), fmul(v[2], w[1])),
       F(0) >>

deg_to_rad(d) == fdiv(fmul(d, PI), F(180))

Vec(a, b, c, d) == <<F(a), F(b), F(c), F(d)>>

(***************************************************************************)
(* material.rs                                                             *)
(***************************************************************************)
lambertian(color) ==
    [color |-> color, material_type |-> 0, fuzz |-> F(0), _padding |-> <<F(0), F(0)>>]

metallic(color, fuzz) ==
    [color |-> color, material_type |-> 1, fuzz |-> fuzz, _padding |-> <<F(0), F(0)>>]

(***************************************************************************)
(* world_data.rs                                                           *)
(***************************************************************************)
\* The length of the spheres and materials arrays of WorldData.
SphereSlots == 128

\* The bound add_sphere asserts sphere_count to be below.
AssertBound == 127

Slots == 0..(SphereSlots - 1)

WorldData_new(window_width, window_height, lookfrom, lookat, vfov, sample_per_pixels, max_depth) ==
    LET focal_length == norm(sub(lookfrom, lookat))
        theta == deg_to_rad(vfov)
        h == ftan(fdiv(theta, F(2)))
        viewport_height == fmul(fmul(F(2), h), focal_length)
        viewport_width == fmul(viewport_height, fdiv(F(window_width), F(window_height)))
        vup == Vec(0, 1, 0, 0)
        w == normalize(sub(lookfrom, lookat))
        u == normalize(cross(vup, w))
        v == cross(w, u)
        viewport_x == scale(viewport_width, u)
        viewport_y == scale(fneg(viewport_height), v)
        pix_delta_x == scale(fdiv(F(1), F(window_width)), viewport_x)
        pix_delta_y == scale(fdiv(F(1), F(window_height)), viewport_y)
        viewport_up_left ==
            sub(sub(sub(lookfrom, scale(focal_length, w)), scale(<<1, 2>>, viewport_x)),
                scale(<<1, 2>>, viewport_y))
        pixel_up_left == add(viewport_up_left, scale(<<1, 2>>, add(pix_delta_x, pix_delta_y)))
    IN  [ window_height |-> window_height,
          window_width |-> window_width,
          lookfrom |-> lookfrom,
          lookat |-> lookat,
          vfov |-> vfov,
          sample_per_pixels |-> sample_per_pixels,
          max_depth |-> max_depth,
          frame |-> 0,
          frames_since_change |-> 0,
          camera_frame_u |-> u,
          camera_frame_v |-> v,
          camera_frame_w |-> w,
          pix_delta_x |-> pix_delta_x,
          pix_delta_y |-> pix_delta_y,
          pixel_up_left |-> pixel_up_left,
          spheres |-> [i \in Slots |-> Vec(0, 0, 0, 0)],
          materials |-> [i \in Slots |-> lambertian(Vec(0, 0, 0, 1))],
          sphere_count |-> 0 ]

\* next_frame with the second increment forgotten.
next_frame_one_counter(self) ==
    [self EXCEPT !.frame = @ + 1]

next_frame(self) ==
    [self EXCEPT !.frame = @ + 1, !.frames_since_change = @ + 1]

\* update_size with the copy of frame forgotten.
update_size_frame_lost(self, window_width, window_height) ==
    LET new_world ==
            WorldData_new(window_width, window_height, self.lookfrom, self.lookat,
                          self.vfov, self.sample_per_pixels, self.max_depth)
    IN  [new_world EXCEPT !.sphere_count = self.sphere_count,
                          !.spheres = self.spheres,
                          !.materials = self.materials]

\* update_size deriving the camera from the size the record had, and only
\* storing the new one.
update_size_stale_camera(self, window_width, window_height) ==
    LET new_world ==
            WorldData_new(self.window_width, self.window_height, self.lookfrom, self.lookat,
                          self.vfov, self.sample_per_pixels, self.max_depth)
    IN  [new_world EXCEPT !.window_width = window_width,
                          !.window_height = window_height,
                          !.sphere_count = self.sphere_count,
                          !.spheres = self.spheres,
                          !.materials = self.materials,
                          !.frame = self.frame]

update_size(self, window_width, window_height) ==
    LET new_world ==
            WorldData_new(window_width, window_height, self.lookfrom, self.lookat,
                          self.vfov, self.sample_per_pixels, self.max_depth)
    IN  [new_world EXCEPT !.sphere_count = self.sphere_count,
                          !.spheres = self.spheres,
                          !.materials = self.materials,
                          !.frame = self.frame]

\* The assert! of add_sphere: the call panics when this is false.
add_sphere_assert(self) == self.sphere_count < AssertBound

\* add_sphere writing the material one slot after the sphere.
add_sphere_misaligned(self, sphere, material) ==
    [self EXCEPT !.spheres[self.sphere_count] = sphere,
                 !.materials[(self.sphere_count + 1) % SphereSlots] = material,
                 !.sphere_count = @ + 1]

\* The body of add_sphere after its assert!.
add_sphere(self, sphere, material) ==
    [self EXCEPT !.spheres[self.sphere_count] = sphere,
                 !.materials[self.sphere_count] = material,
                 !.sphere_count = @ + 1]

(***************************************************************************)
(* Bounds and inputs                                                       *)
(***************************************************************************)
\* next_frame is explored while frame is below this.
MaxFrame == 2

\* The first MaxVaried calls of add_sphere draw their arguments from
\* Primitives; the later ones pass the first sphere of main.
MaxVaried == 1

\* main.rs: sample_per_pixels.
SamplePerPixels == 10

\* main.rs: max_depth.
MaxDepth == 5

\* The (width, height) pairs the operations are called with; (0, 0) is the
\* resolution main constructs the record with.
Sizes == {<<0, 0>>, <<8, 13>>, <<13, 8>>}

\* The camera of main.rs and a second one, off the axes.
Cameras ==
    { [lookfrom |-> Vec(0, 0, 0, 0), lookat |-> Vec(0, 0, -1, 0), vfov |-> F(90)],
      [lookfrom |-> Vec(3, 0, 4, 0), lookat |-> Vec(0, 0, 0, 0), vfov |-> F(60)] }

\* main.rs: sphere1 with material1 and sphere2 with material2, and a
\* metallic sphere.
sphere1 == <<F(0), <<-201, 2>>, F(-1), F(100)>>

material1 == lambertian(<<<<1, 5>>, <<4, 5>>, <<2, 5>>, F(1)>>)

sphere2 == <<F(0), F(0), <<-6, 5>>, <<1, 2>>>>

material2 == lambertian(Vec(0, 1, 0, 1))

sphere3 == <<F(-1), F(0), F(-1), <<1, 2>>>>

material3 == lambertian(Vec(1, 0, 0, 1))

sphere4 == <<F(1), F(0), F(-1), <<1, 2>>>>

material4 == lambertian(Vec(0, 1, 0, 1))

Primitives == {<<sphere1, material1>>, <<sphere3, metallic(Vec(1, 0, 0, 1), <<1, 2>>)>>}

PrimitiveInputs(count) == IF count < MaxVaried THEN Primitives ELSE {<<sphere1, material1>>}

(***************************************************************************)
(* State                                                                   *)
(***************************************************************************)
VARIABLES
    world,            \* the WorldData record (App.world_data in the program)
    panicked,         \* a panic has aborted the process
    op,               \* the last operation called on the record, with its arguments
    log,              \* the (sphere, material) pairs of the add_sphere calls that returned
    base,             \* frame and frames_since_change as the current run of next_frame calls found them
    n_next,           \* the number of next_frame calls in the current run
    since_change,     \* the number of next_frame calls since the last add_sphere or update_size
    repeated,         \* the last two calls were update_size with the same arguments
    pc,               \* the position of the program: main, the event loop, a handler's step
    state,            \* App.state: <<>> is None, <<s>> is Some(s), s a WgpuState
    redraw_requested, \* a RedrawRequested event is pending
    dispatched,       \* what the last submitted compute dispatch ran with (<<>>: none yet)
    steps,            \* the steps of the current RedrawRequested handler, in order
    resized,          \* <<>>, or <<s>> with s the size of the last Resized event handled
    snapshot          \* the record as next_frame left it in the current RedrawRequested handler

vars == <<world, panicked, op, log, base, n_next, since_change, repeated,
          pc, state, redraw_requested, dispatched, steps, resized, snapshot>>

Counters(w) == [frame |-> w.frame, frames_since_change |-> w.frames_since_change]

Op(name, ok, w, h) == [name |-> name, ok |-> ok, w |-> w, h |-> h]

\* The number of add_sphere calls made so far.
calls == Len(log) + (IF op.name = "add_sphere" /\ ~op.ok THEN 1 ELSE 0)

(***************************************************************************)
(* Spec: the operations of WorldData, called in any order on a record      *)
(* constructed with any of the sizes and cameras.                          *)
(***************************************************************************)
Init ==
    /\ \E s \in Sizes, c \in Cameras :
          world = WorldData_new(s[1], s[2], c.lookfrom, c.lookat, c.vfov,
                                SamplePerPixels, MaxDepth)
    /\ panicked = FALSE
    /\ op = Op("new", TRUE, world.window_width, world.window_height)
    /\ log = <<>>
    /\ base = Counters(world)
    /\ n_next = 0
    /\ since_change = 0
    /\ repeated = FALSE
    /\ pc = "api"
    /\ state = <<>>
    /\ redraw_requested = FALSE
    /\ dispatched = <<>>
    /\ steps = <<>>
    /\ resized = <<>>
    /\ snapshot = <<>>

\* add_sphere returns: its assert! held.
AddSphere ==
    /\ ~panicked
    /\ add_sphere_assert(world)
    /\ \E p \in PrimitiveInputs(world.sphere_count) :
          /\ world' = add_sphere(world, p[1], p[2])
          /\ log' = Append(log, p)
    /\ op' = Op("add_sphere", TRUE, 0, 0)
    /\ base' = Counters(world')
    /\ n_next' = 0
    /\ since_change' = 0
    /\ repeated' = FALSE
    /\ UNCHANGED <<panicked, pc, state, redraw_requested, dispatched, steps, resized, snapshot>>

\* add_sphere panics: its assert! failed, before anything was written.
AddSpherePanic ==
    /\ ~panicked
    /\ ~add_sphere_assert(world)
    /\ panicked' = TRUE
    /\ op' = Op("add_sphere", FALSE, 0, 0)
    /\ repeated' = FALSE
    /\ UNCHANGED <<world, log, base, n_next, since_change,
                   pc, state, redraw_requested, dispatched, steps, resized, snapshot>>

NextFrame ==
    /\ ~panicked
    /\ world.frame < MaxFrame
    /\ world' = next_frame(world)
    /\ op' = Op("next_frame", TRUE, 0, 0)
    /\ n_next' = n_next + 1
    /\ since_change' = since_change + 1
    /\ repeated' = FALSE
    /\ UNCHANGED <<panicked, log, base, pc, state, redraw_requested, dispatched, steps, resized, snapshot>>

UpdateSize ==
    /\ ~panicked
    /\ \E s \in Sizes :
          /\ world' = update_size(world, s[1], s[2])
          /\ op' = Op("update_size", TRUE, s[1], s[2])
          /\ repeated' = (op = Op("update_size", TRUE, s[1], s[2]))
    /\ base' = Counters(world')
    /\ n_next' = 0
    /\ since_change' = 0
    /\ UNCHANGED <<panicked, log, pc, state, redraw_requested, dispatched, steps, resized, snapshot>>

Next == AddSphere \/ AddSpherePanic \/ NextFrame \/ UpdateSize

Spec == Init /\ [][Next]_vars

(***************************************************************************)
(* state.rs                                                                *)
(***************************************************************************)
Size(width, height) == [width |-> width, height |-> height]

Extent3d(width, height) == [width |-> width, height |-> height, depth_or_array_layers |-> 1]

\* The workgroup size the dispatch divides the window by.
WorkgroupSize == 8

div_ceil(a, b) == (a + b - 1) \div b

\* Surface::configure with the width and height of self.size.
configure_surface(self) ==
    [self EXCEPT !.surface_config = Size(self.size.width, self.size.height)]

\* WgpuState::new: the compute texture and the uniform buffer are created
\* here, from the window's inner size and the record passed in.
WgpuState_new(inner_size, world_data) ==
    configure_surface(
        [ size |-> inner_size,
          compute_texture_size |-> Extent3d(inner_size.width, inner_size.height),
          compute_texture |-> Extent3d(inner_size.width, inner_size.height),
          world_uniform |-> world_data,
          queue |-> <<>>,
          surface_config |-> Size(0, 0) ])

\* rewrite_world_data with the write_buffer call left out.
rewrite_world_data_dropped(self, world_data) == self

\* Queue::write_buffer schedules the write; it is carried out at the start
\* of the next Queue::submit, before the submitted commands run.
rewrite_world_data(self, world_data) ==
    [self EXCEPT !.queue = Append(@, world_data)]

resize(self, new_size) ==
    configure_surface([self EXCEPT !.size = new_size])

\* Queue::submit of render: the scheduled writes reach the buffer in order.
submit(self) ==
    [self EXCEPT !.world_uniform = IF self.queue = <<>> THEN @ ELSE self.queue[Len(self.queue)],
                 !.queue = <<>>]

\* What the commands render encodes run with, once submitted.
render_commands(self) ==
    [ uniform |-> submit(self).world_uniform,
      grid |-> <<div_ceil(self.size.width, WorkgroupSize),
                 div_ceil(self.size.height, WorkgroupSize), 1>>,
      texture |-> self.compute_texture,
      copy_extent |-> self.compute_texture_size,
      surface |-> self.surface_config ]

(***************************************************************************)
(* main.rs                                                                 *)
(***************************************************************************)
\* The spheres main adds, in order.
MainScene ==
    << <<sphere1, material1>>, <<sphere2, material2>>,
       <<sphere3, material3>>, <<sphere4, material4>> >>

\* The inner sizes the window may be created with.
WindowSizes == {Size(8, 13), Size(13, 8)}

\* The sizes a Resized event may carry (a minimised window reports 0 x 0).
EventSizes == {Size(s[1], s[2]) : s \in Sizes}

RedrawOrder == <<"next_frame", "write_buffer", "dispatch", "present">>

\* The state after main has constructed the record: WorldData::new(0, 0, ...).
AppInit ==
    /\ world = WorldData_new(0, 0, Vec(0, 0, 0, 0), Vec(0, 0, -1, 0), F(90),
                             SamplePerPixels, MaxDepth)
    /\ panicked = FALSE
    /\ op = Op("new", TRUE, 0, 0)
    /\ log = <<>>
    /\ base = Counters(world)
    /\ n_next = 0
    /\ since_change = 0
    /\ repeated = FALSE
    /\ pc = "main"
    /\ state = <<>>
    /\ redraw_requested = FALSE
    /\ dispatched = <<>>
    /\ steps = <<>>
    /\ resized = <<>>
    /\ snapshot = <<>>

\* main: the next of its four add_sphere calls.
MainAddSphere ==
    /\ pc = "main"
    /\ world.sphere_count < Len(MainScene)
    /\ add_sphere_assert(world)
    /\ LET p == MainScene[world.sphere_count + 1] IN
          /\ world' = add_sphere(world, p[1], p[2])
          /\ log' = Append(log, p)
    /\ op' = Op("add_sphere", TRUE, 0, 0)
    /\ base' = Counters(world')
    /\ n_next' = 0
    /\ since_change' = 0
    /\ repeated' = FALSE
    /\ UNCHANGED <<panicked, pc, state, redraw_requested, dispatched, steps, resized, snapshot>>

\* main: App::new(world_data) and event_loop.run_app.
MainRunApp ==
    /\ pc = "main"
    /\ world.sphere_count = Len(MainScene)
    /\ pc' = "run_app"
    /\ UNCHANGED <<world, panicked, op, log, base, n_next, since_change, repeated,
                   state, redraw_requested, dispatched, steps, resized, snapshot>>

\* App::resumed: the window is created, WgpuState::new is given a copy of
\* the record, and a redraw is requested.
Resumed ==
    /\ pc = "run_app"
    /\ \E inner_size \in WindowSizes : state' = <<WgpuState_new(inner_size, world)>>
    /\ redraw_requested' = TRUE
    /\ pc' = "idle"
    /\ UNCHANGED <<world, panicked, op, log, base, n_next, since_change, repeated,
                   dispatched, steps, resized, snapshot>>

\* window_event, CloseRequested.
CloseRequested ==
    /\ pc = "idle"
    /\ pc' = "exited"
    /\ UNCHANGED <<world, panicked, op, log, base, n_next, since_change, repeated,
                   state, redraw_requested, dispatched, steps, resized, snapshot>>

\* window_event, RedrawRequested: self.world_data.next_frame().
RedrawNextFrame ==
    /\ pc = "idle"
    /\ redraw_requested
    /\ world.frame < MaxFrame
    /\ world' = next_frame(world)
    /\ op' = Op("next_frame", TRUE, 0, 0)
    /\ n_next' = n_next + 1
    /\ since_change' = since_change + 1
    /\ repeated' = FALSE
    /\ redraw_requested' = FALSE
    /\ snapshot' = <<world'>>
    /\ steps' = <<"next_frame">>
    /\ pc' = "redraw_write"
    /\ UNCHANGED <<panicked, log, base, state, dispatched, resized>>

\* window_event, RedrawRequested: state.rewrite_world_data(self.world_data).
RedrawRewrite ==
    /\ pc = "redraw_write"
    /\ state' = <<rewrite_world_data(state[1], world)>>
    /\ steps' = Append(steps, "write_buffer")
    /\ pc' = "redraw_render"
    /\ UNCHANGED <<world, panicked, op, log, base, n_next, since_change, repeated,
                   redraw_requested, dispatched, resized, snapshot>>

\* render, up to queue.submit: the surface texture is acquired, the dispatch
\* and the texture copy are encoded and submitted.
RenderSubmit ==
    /\ pc = "redraw_render"
    /\ dispatched' = <<render_commands(state[1])>>
    /\ state' = <<submit(state[1])>>
    /\ steps' = Append(steps, "dispatch")
    /\ pc' = "redraw_present"
    /\ UNCHANGED <<world, panicked, op, log, base, n_next, since_change, repeated,
                   redraw_requested, resized, snapshot>>

\* render: get_current_texture fails and its expect panics.
RenderAcquireFail ==
    /\ pc = "redraw_render"
    /\ panicked' = TRUE
    /\ pc' = "panicked"
    /\ UNCHANGED <<world, op, log, base, n_next, since_change, repeated,
                   state, redraw_requested, dispatched, steps, resized, snapshot>>

\* render: surface_texture.present(); then the handler requests the next redraw.
RenderPresent ==
    /\ pc = "redraw_present"
    /\ steps' = Append(steps, "present")
    /\ redraw_requested' = TRUE
    /\ pc' = "idle"
    /\ UNCHANGED <<world, panicked, op, log, base, n_next, since_change, repeated,
                   state, dispatched, resized, snapshot>>

\* window_event, Resized(size): update_size on the record, then state.resize.
Resized ==
    /\ pc = "idle"
    /\ \E size \in EventSizes :
          /\ world' = update_size(world, size.width, size.height)
          /\ op' = Op("update_size", TRUE, size.width, size.height)
          /\ repeated' = (op = Op("update_size", TRUE, size.width, size.height))
          /\ state' = <<resize(state[1], size)>>
          /\ resized' = <<size>>
    /\ base' = Counters(world')
    /\ n_next' = 0
    /\ since_change' = 0
    /\ UNCHANGED <<panicked, log, pc, redraw_requested, dispatched, steps, snapshot>>

AppNext ==
    \/ MainAddSphere \/ MainRunApp \/ Resumed \/ CloseRequested
    \/ RedrawNextFrame \/ RedrawRewrite \/ RenderSubmit \/ RenderAcquireFail
    \/ RenderPresent \/ Resized

AppSpec == AppInit /\ [][AppNext]_vars

(***************************************************************************)
(* Properties                                                              *)
(***************************************************************************)
IsPrefix(p, q) == Len(p) <= Len(q) /\ \A i \in 1..Len(p) : p[i] = q[i]

NonZero(w) == w.window_width # 0 /\ w.window_height # 0

\* The record with its two frame counters blanked.
OtherFields(w) == [w EXCEPT !.frame = 0, !.frames_since_change = 0]

\* C1: on a fresh record each of the first 128 add_sphere calls returns and
\* leaves sphere_count equal to the number of calls made, and the 129th call
\* is the one that is rejected.
C1_First128Succeed ==
    op.name = "add_sphere" =>
        /\ calls <= SphereSlots => (op.ok /\ world.sphere_count = calls)
        /\ ~op.ok => calls = SphereSlots + 1

\* C2: an add_sphere call rejected for capacity leaves the record as it was
\* and is an error the caller recovers from: the process is not aborted, so
\* that further operations can be applied.
C2_RejectionRecoverable ==
    [][(op'.name = "add_sphere" /\ ~op'.ok) =>
          (world' = world /\ log' = log /\ ~panicked')]_vars

\* C3: in a RedrawRequested handler the steps are next_frame, then the write
\* of the record to the uniform buffer, then the dispatch, then present; the
\* record is not changed after next_frame, and the dispatch reads the record
\* as that frame's next_frame left it.
C3_DispatchSeesCurrentFrame ==
    /\ IsPrefix(steps, RedrawOrder)
    /\ pc \in {"redraw_write", "redraw_render", "redraw_present"} => world = snapshot[1]
    /\ Len(steps) >= 3 => (dispatched # <<>> /\ dispatched[1].uniform = snapshot[1])

C3_Witness ==
    /\ pc = "redraw_present"
    /\ world.frame = 2
    /\ resized # <<>>
    /\ dispatched[1].uniform = world

\* C4: once a Resized(w, h) event is handled, every dispatch runs with the
\* record, the surface, the dispatch grid and the compute texture (the
\* extent of the texture copy) all sized for (w, h).
C4_DispatchSizedForResize ==
    (resized # <<>> /\ pc = "redraw_present") =>
        LET size == resized[1]
            d == dispatched[1]
        IN  /\ d.uniform.window_width = size.width
            /\ d.uniform.window_height = size.height
            /\ d.surface = size
            /\ d.grid = <<div_ceil(size.width, WorkgroupSize),
                          div_ceil(size.height, WorkgroupSize), 1>>
            /\ d.texture = Extent3d(size.width, size.height)
            /\ d.copy_extent = Extent3d(size.width, size.height)

\* C5: WorldData::new and update_size are never called with a zero width or
\* height, and no record with a zero width or height is uploaded to the
\* uniform buffer or read by a dispatch.
C5_NoZeroResolution ==
    /\ op.name \in {"new", "update_size"} => (op.w # 0 /\ op.h # 0)
    /\ state # <<>> => NonZero(state[1].world_uniform)
    /\ dispatched # <<>> => NonZero(dispatched[1].uniform)

\* C6: update_size(w, h) leaves the record equal to WorldData::new(w, h, ...)
\* on the record's own camera and sampling parameters, with sphere_count,
\* spheres, materials and frame taken from the record; frames_since_change
\* is 0.
C6_UpdateSizeIsFreshRecord ==
    [][op'.name = "update_size" =>
          LET fresh == WorldData_new(op'.w, op'.h, world.lookfrom, world.lookat, world.vfov,
                                     world.sample_per_pixels, world.max_depth)
          IN  /\ world' = [fresh EXCEPT !.sphere_count = world.sphere_count,
                                        !.spheres = world.spheres,
                                        !.materials = world.materials,
                                        !.frame = world.frame]
              /\ world'.frames_since_change = 0]_vars

C6_Witness ==
    /\ op.name = "update_size"
    /\ op.w # 0
    /\ world.frame > 0
    /\ world.sphere_count > 1
    /\ world.window_width = op.w
    /\ IsFinite(world.pix_delta_x[1])

\* C7: N consecutive next_frame calls raise frame by N and
\* frames_since_change by N, and change no other field of the record.
C7_NextFrameRun ==
    /\ [](n_next > 0 =>
            /\ world.frame = base.frame + n_next
            /\ world.frames_since_change = base.frames_since_change + n_next)
    /\ [][n_next' > 0 => OtherFields(world') = OtherFields(world)]_vars

C7_Witness ==
    /\ n_next = 2
    /\ op.name = "next_frame"
    /\ world.sphere_count > 0
    /\ world.frame = base.frame + 2

\* C8: add_sphere and update_size leave frames_since_change at 0 and
\* next_frame adds 1 to it, so that it is the number of next_frame calls
\* since the last add_sphere or update_size.
C8_CountsSinceChange ==
    /\ world.frames_since_change = since_change
    /\ (op.name \in {"add_sphere", "update_size"} /\ op.ok) => world.frames_since_change = 0

\* C9: update_size(w, h) called again right after update_size(w, h) leaves
\* every field of the record as the first call left it.
C9_UpdateSizeIdempotent ==
    [][(op.name = "update_size" /\ op'.name = "update_size" /\ op'.w = op.w /\ op'.h = op.h) =>
          world' = world]_vars

C9_Witness ==
    /\ repeated
    /\ op.name = "update_size"
    /\ op.w # 0
    /\ world.frame > 0
    /\ world.sphere_count > 0

\* C10: sphere_count never exceeds 128; slot i below sphere_count holds the
\* sphere and the material of the (i+1)-th add_sphere call that returned,
\* and every slot from sphere_count on holds what the constructor put there.
C10_AppendOnlyParallelLog ==
    /\ world.sphere_count <= SphereSlots
    /\ world.sphere_count = Len(log)
    /\ \A i \in Slots :
          IF i < world.sphere_count
          THEN world.spheres[i] = log[i + 1][1] /\ world.materials[i] = log[i + 1][2]
          ELSE /\ world.spheres[i] = Vec(0, 0, 0, 0)
               /\ world.materials[i] = lambertian(Vec(0, 0, 0, 1))

C10_Witness ==
    /\ world.sphere_count = AssertBound
    /\ op.name = "update_size"
    /\ world.frame > 0
    /\ log[1] # log[2]

====
